---- MODULE Spec2Model ----
(***************************************************************************)
(* StaffRouteOptimization: two independent scripts.                        *)
(*   main.py  - builds a synthetic vehicle-routing problem, hands it to    *)
(*              the routing solver and prints the routes.                  *)
(*   main2.py - builds a staff-shift scheduling model (StaffScheduler),    *)
(*              hands it to CP-SAT and prints the schedule.                *)
(* Python lists are TLA+ sequences; a 0-based index i of the source is     *)
(* position i + 1 of the sequence (operator At).                           *)
(***************************************************************************)
EXTENDS Integers, Sequences, FiniteSets, TLC

VARIABLES
    \* ---- main.py ----
    vpc,            \* position of main() in main.py
    data,           \* the dict returned by create_data_model()
    routing,        \* the routing model built by create_routing_model()
    solution,       \* what solve_vrp() returned
    console,        \* what main.py printed, in order
    \* ---- main2.py ----
    pc,             \* position of main() in main2.py
    num_staff,      \* StaffScheduler.num_staff
    num_days,       \* StaffScheduler.num_days
    vars,           \* StaffScheduler.vars: the keys of the BoolVars created
    constraints,    \* the linear constraints added to StaffScheduler.model
    objective,      \* the single objective of StaffScheduler.model
    schedule,       \* the schedule returned by StaffScheduler.solve()
    console2        \* what main2.py printed, in order

vrpvars == <<vpc, data, routing, solution, console>>
schedvars == <<pc, num_staff, num_days, vars, constraints, objective, schedule, console2>>
allvars == <<vpc, data, routing, solution, console,
             pc, num_staff, num_days, vars, constraints, objective, schedule, console2>>

\* Python's None; every optional value of the model is a record
None == [none |-> TRUE]

(***************************************************************************)
(* Bounds of the model.                                                    *)
(***************************************************************************)
\* number of staff locations generated by create_data_model (30 in the source)
NumStaffLoc == 1
\* number of vehicles (6 in the source)
NumVehicles == 1
\* coordinates are drawn from 0..MaxCoord x 0..MaxCoord
MaxCoord == 1
\* number of staff of the StaffScheduler (48 in main of main2.py)
NumStaff == 8
\* num_days is drawn from 1..MaxDays (30 by default in the source)
MaxDays == 7

(***************************************************************************)
(* Program constants of main.py.                                           *)
(***************************************************************************)
Scale == 10000
CapMin == 5
CapMax == 10
Depot == 0
DepotLocation == <<0, 0>>

Grid == (0..MaxCoord) \X (0..MaxCoord)

\* list[i] for a 0-based index i
At(list, i) == list[i + 1]

\* [x] * n
Repeat(x, n) == [i \in 1..n |-> x]

\* list(range(a, b))
Range(a, b) == [i \in 1..(b - a) |-> a + i - 1]

\* one print() call: what kind of report it is, its label, the value formatted into it
Line(kind, label, value) == [kind |-> kind, label |-> label, value |-> value]

RECURSIVE SumSeq(_)
SumSeq(s) == IF s = <<>> THEN 0 ELSE Head(s) + SumSeq(Tail(s))

(***************************************************************************)
(* euclidean_distance: int(math.sqrt(dx ** 2 + dy ** 2) * 10000).          *)
(* For integer coordinates the truncated product is the integer square     *)
(* root of (dx^2 + dy^2) * 10000^2.                                        *)
(***************************************************************************)
RECURSIVE IsqrtBetween(_, _, _)
IsqrtBetween(n, lo, hi) ==
    IF lo = hi THEN lo
    ELSE LET mid == (lo + hi + 1) \div 2
         IN  IF mid * mid <= n THEN IsqrtBetween(n, mid, hi)
             ELSE IsqrtBetween(n, lo, mid - 1)

\* int(math.sqrt(k) * 10000) for every squared distance k of the grid
SqrtTable == [k \in 0..(2 * MaxCoord * MaxCoord) |-> IsqrtBetween(k * Scale * Scale, 0, 46340)]

SqrtScaled(k) == SqrtTable[k]

\* the mutant: the first coordinate's difference is not squared
euclidean_distance_unsquared(point1, point2) ==
    LET d0 == point1[1] - point2[1]
        d1 == point1[2] - point2[2]
    IN  SqrtScaled((IF d0 < 0 THEN 0 ELSE d0) + d1 * d1)

euclidean_distance(point1, point2) ==
    SqrtScaled((point1[1] - point2[1]) * (point1[1] - point2[1])
               + (point1[2] - point2[2]) * (point1[2] - point2[2]))

get_distance_matrix(locations) ==
    [i \in 1..Len(locations) |->
        [j \in 1..Len(locations) |-> euclidean_distance(locations[i], locations[j])]]

\* the mutant: one zero too few for the vehicle start points
demands_short(n_staff, n_vehicles) ==
    Repeat(1, n_staff) \o <<0>> \o Repeat(0, n_vehicles - 1)

\* 'demands': [1] * num_staff + [0] + [0] * 6
demands_list(n_staff, n_vehicles) ==
    Repeat(1, n_staff) \o <<0>> \o Repeat(0, n_vehicles)

\* create_data_model, given the values the random generator produced
DataModel(staff_locations, vehicle_starts, vehicle_capacities) ==
    LET n_staff == Len(staff_locations)
        n_veh == Len(vehicle_starts)
        locations == (<<DepotLocation>> \o staff_locations) \o vehicle_starts
    IN  [ distance_matrix |-> get_distance_matrix(locations),
          demands |-> demands_list(n_staff, n_veh),
          vehicle_capacities |-> vehicle_capacities,
          num_vehicles |-> Len(vehicle_capacities),
          depot |-> Depot,
          vehicle_starts |-> Range(Len(locations) - n_veh, Len(locations)),
          vehicle_ends |-> Repeat(0, n_veh),
          locations |-> locations ]

create_data_model ==
    /\ vpc = "start"
    /\ \E staff_locations \in [1..NumStaffLoc -> Grid],
          vehicle_starts \in [1..NumVehicles -> Grid],
          vehicle_capacities \in [1..NumVehicles -> CapMin..CapMax] :
            data' = DataModel(staff_locations, vehicle_starts, vehicle_capacities)
    /\ vpc' = "data"
    /\ UNCHANGED <<routing, solution, console>>
    /\ UNCHANGED schedvars

print_data ==
    /\ vpc = "data"
    /\ console' = console \o
            << Line("data", "Distance Matrix:", data.distance_matrix),
               Line("data", "Demands:", data.demands),
               Line("data", "Vehicle Capacities:", data.vehicle_capacities),
               Line("data", "Number of Vehicles:", data.num_vehicles),
               Line("data", "Depot Index:", data.depot),
               Line("data", "Vehicle Start Indices:", data.vehicle_starts),
               Line("data", "Vehicle End Indices:", data.vehicle_ends),
               Line("data", "Locations:", data.locations) >>
    /\ vpc' = "printed"
    /\ UNCHANGED <<data, routing, solution>>
    /\ UNCHANGED schedvars

(***************************************************************************)
(* create_routing_model: the index manager (nodes, vehicles, starts, ends),*)
(* the arc cost of register_transit_callback and the 'Capacity' dimension  *)
(* of add_capacity_constraints.                                            *)
(***************************************************************************)
RoutingModel(d) ==
    [ num_nodes |-> Len(d.distance_matrix),
      num_vehicles |-> d.num_vehicles,
      starts |-> d.vehicle_starts,
      ends |-> d.vehicle_ends,
      arc_cost |-> d.distance_matrix,
      demand |-> d.demands,
      capacity |-> d.vehicle_capacities ]

create_routing_model ==
    /\ vpc = "printed"
    /\ routing' = RoutingModel(data)
    /\ vpc' = "model"
    /\ UNCHANGED <<data, solution, console>>
    /\ UNCHANGED schedvars

SeqToSet(s) == {s[i] : i \in 1..Len(s)}

\* the nodes every solution must visit: all but the vehicles' starts and ends
VisitNodes(r) == (0..(r.num_nodes - 1)) \ (SeqToSet(r.starts) \cup SeqToSet(r.ends))

\* sequences without repetition over a set of nodes
Paths(nodes) ==
    {p \in UNION {[1..k -> nodes] : k \in 0..Cardinality(nodes)} :
        \A i, j \in 1..Len(p) : i # j => p[i] # p[j]}

\* the nodes of vehicle v's route, from its start to its end
RouteOf(r, sol, v) == (<<r.starts[v]>> \o sol[v]) \o <<r.ends[v]>>

\* the 'Capacity' dimension: the demand of every node left, start included
RouteLoadOk(r, sol, v) ==
    LET route == RouteOf(r, sol, v)
    IN  SumSeq([i \in 1..(Len(route) - 1) |-> At(r.demand, route[i])]) <= r.capacity[v]

\* the assignments the routing solver may return: every node visited once,
\* every vehicle within its capacity
RoutingSolutions(r) ==
    {sol \in [1..r.num_vehicles -> Paths(VisitNodes(r))] :
        /\ \A n \in VisitNodes(r) :
              Cardinality({v \in 1..r.num_vehicles : n \in SeqToSet(sol[v])}) = 1
        /\ \A v \in 1..r.num_vehicles : RouteLoadOk(r, sol, v)}

\* solve_vrp: a solution, or None when the solver finds none in its 30 seconds
solve_vrp ==
    /\ vpc = "model"
    /\ \/ \E sol \in RoutingSolutions(routing) : solution' = [routes |-> sol]
       \/ solution' = None
    /\ vpc' = "solved"
    /\ UNCHANGED <<data, routing, console>>
    /\ UNCHANGED schedvars

(***************************************************************************)
(* print_solution.  A console line holds the number handed to the format   *)
(* string (distance units), not the formatted text.                        *)
(***************************************************************************)
\* the while loop of one vehicle: the distance added for each arc of the route
ArcDistances(d, route) ==
    [i \in 1..(Len(route) - 1) |->
        IF route[i + 1] < Len(d.distance_matrix)
        THEN At(At(d.distance_matrix, route[i]), route[i + 1])
        ELSE 0]

RouteDistance(d, route) == SumSeq(ArcDistances(d, route))

RouteLoad(d, route) ==
    SumSeq([i \in 1..(Len(route) - 1) |->
        IF route[i] < Len(d.distance_matrix) THEN At(d.demands, route[i]) ELSE 0])

\* the lines printed for vehicle_id (0-based)
VehicleLines(d, route, vehicle_id) ==
    << Line("solution", "Vehicle", <<vehicle_id, At(d.vehicle_capacities, vehicle_id)>>),
       Line("solution", "Total distance:", RouteDistance(d, route)),
       Line("solution", "Total Load:", RouteLoad(d, route)) >>

RECURSIVE AllVehicleLines(_, _, _, _)
AllVehicleLines(d, r, sol, vehicle_id) ==
    IF vehicle_id >= d.num_vehicles THEN <<>>
    ELSE VehicleLines(d, RouteOf(r, sol, vehicle_id + 1), vehicle_id)
            \o AllVehicleLines(d, r, sol, vehicle_id + 1)

\* total_distance = 0: set before the loop over the vehicles, which never adds to it
total_distance == 0

print_solution ==
    /\ vpc = "solved"
    /\ solution # None
    /\ console' = (console \o
            << Line("solution", "Total staff:",
                    SumSeq(SubSeq(data.demands, 1, Len(data.demands) - (NumVehicles + 1)))),
               Line("solution", "Total vehicle capacity:", SumSeq(data.vehicle_capacities)) >>
            \o AllVehicleLines(data, routing, solution.routes, 0))
            \o << Line("solution", "Total distance of all routes:",
                       total_distance),
                  Line("plot", "Vehicle Routes",
                       [v \in 1..data.num_vehicles |-> RouteOf(routing, solution.routes, v)]) >>
    /\ vpc' = "done"
    /\ UNCHANGED <<data, routing, solution>>
    /\ UNCHANGED schedvars

\* main(): "if solution:" has no else branch
main_no_solution ==
    /\ vpc = "solved"
    /\ solution = None
    /\ vpc' = "done"
    /\ UNCHANGED <<data, routing, solution, console>>
    /\ UNCHANGED schedvars

(***************************************************************************)
(* main2.py: StaffScheduler.                                               *)
(***************************************************************************)
\* self.shifts, in the dict's order: (start hour, start minute, end hour, end minute)
ShiftNames == <<"A", "B", "C", "D", "OFF">>

shifts ==
    [ A |-> <<8, 0, 15, 30>>,
      B |-> <<13, 0, 21, 0>>,
      C |-> <<14, 30, 22, 0>>,
      D |-> <<16, 0, 23, 30>>,
      OFF |-> <<-1, -1, -1, -1>> ]

ShiftSet == SeqToSet(ShiftNames)
WorkShifts == ShiftSet \ {"OFF"}

\* self.desired_staff_per_shift, in the dict's order
DesiredNames == <<"A", "B", "C", "D">>
desired_staff_per_shift == [A |-> 10, B |-> 8, C |-> 9, D |-> 5]

night_shifts == {"C", "D"}

StartMinute(shift) == shifts[shift][1] * 60 + shifts[shift][2]
EndMinute(shift) == shifts[shift][3] * 60 + shifts[shift][4]

Staff(n) == 0..(n - 1)
Days(nd) == 0..(nd - 1)
\* range(self.num_days // 7) and range(week * 7, (week + 1) * 7)
WeekLen == 7
Weeks(nd) == 0..((nd \div WeekLen) - 1)
WeekDays(week) == (week * WeekLen)..((week + 1) * WeekLen - 1)

\* create_variables: one BoolVar per (staff, day, shift)
create_variables ==
    /\ pc = "start"
    /\ vars' = {<<s, d, shift>> : s \in Staff(num_staff), d \in Days(num_days), shift \in ShiftSet}
    /\ pc' = "variables"
    /\ UNCHANGED <<num_staff, num_days, constraints, objective, schedule, console2>>
    /\ UNCHANGED vrpvars

(***************************************************************************)
(* add_constraints.  A constraint is kept as the record of what was handed *)
(* to model.Add; Holds gives its meaning on an assignment.                 *)
(***************************************************************************)
\* "One shift per day per staff"
OneShiftConstraints(n, nd) ==
    {[kind |-> "one_shift", s |-> s, d |-> d] : s \in Staff(n), d \in Days(nd)}

\* a) sum of the week's OFF variables == 1
OffConstraints(n, nd) ==
    {[kind |-> "off_week", s |-> s, week |-> week] : s \in Staff(n), week \in Weeks(nd)}

\* b) sum of the night variables of days d..d+3 <= 3
NightConstraints(n, nd) ==
    {[kind |-> "nights", s |-> s, d |-> d] : s \in Staff(n), d \in 0..(nd - 3 - 1)}

\* the mutant: the rest required is 10 hours
RestTooShort10(shift1, shift2) ==
    ((StartMinute(shift2) - EndMinute(shift1) + 24 * 60) % (24 * 60)) < 10 * 60

\* c) the test that decides whether (shift1, shift2) on consecutive days is forbidden
RestTooShort(shift1, shift2) ==
    ((StartMinute(shift2) - EndMinute(shift1) + 24 * 60) % (24 * 60)) < 11 * 60

\* c) vars[(s, d, shift1)] + vars[(s, d + 1, shift2)] <= 1
RestConstraints(n, nd) ==
    {c \in {[kind |-> "rest", s |-> s, d |-> d, shift1 |-> shift1, shift2 |-> shift2] :
                s \in Staff(n), d \in 0..(nd - 1 - 1),
                shift1 \in WorkShifts, shift2 \in WorkShifts} :
        RestTooShort(c.shift1, c.shift2)}

\* e) the coefficient of a shift in total_minutes
ShiftMinutes(shift) == EndMinute(shift) - StartMinute(shift) - 60

\* e) total_minutes >= 40 * 60 and total_minutes <= 50 * 60
MinutesConstraints(n, nd) ==
    {[kind |-> "minutes", s |-> s, week |-> week, lo |-> 40 * 60, hi |-> 50 * 60] :
        s \in Staff(n), week \in Weeks(nd)}

\* "Ensure each shift is covered each day"
CoverConstraints(n, nd) ==
    {[kind |-> "cover", d |-> d, shift |-> shift] : d \in Days(nd), shift \in WorkShifts}

\* deviation in [-num_staff, num_staff] == staff_count - desired_count,
\* abs_deviation in [0, num_staff] == |deviation|
DeviationConstraints(n, nd) ==
    {[kind |-> "deviation", d |-> d, shift |-> shift,
      desired |-> desired_staff_per_shift[shift], lo |-> -n, hi |-> n, abs_hi |-> n] :
        d \in Days(nd), shift \in SeqToSet(DesiredNames)}

AllConstraints(n, nd) ==
    OneShiftConstraints(n, nd) \cup OffConstraints(n, nd) \cup NightConstraints(n, nd)
    \cup RestConstraints(n, nd) \cup MinutesConstraints(n, nd) \cup CoverConstraints(n, nd)
    \cup DeviationConstraints(n, nd)

(***************************************************************************)
(* The objective.  model.Maximize and model.Minimize set the model's       *)
(* single objective: a call replaces what an earlier call set.             *)
(***************************************************************************)
\* f) one Maximize per staff member: the sum of the Sunday OFF variables
SundayCalls(n, nd) ==
    [i \in 1..n |->
        [sense |-> "maximize",
         terms |-> {<<"var", i - 1, 6 + week * WeekLen, "OFF">> : week \in Weeks(nd)}]]

\* one Minimize(abs_deviation) per (shift, day), shift-major
DeviationCalls(n, nd) ==
    [i \in 1..(Len(DesiredNames) * nd) |->
        [sense |-> "minimize",
         terms |-> {<<"abs_deviation", DesiredNames[((i - 1) \div nd) + 1], (i - 1) % nd>>}]]

ObjectiveCalls(n, nd) == SundayCalls(n, nd) \o DeviationCalls(n, nd)

\* CpModel.Maximize / CpModel.Minimize
SetObjective(old, call) == call

RECURSIVE ApplyCalls(_, _)
ApplyCalls(obj, calls) ==
    IF calls = <<>> THEN obj
    ELSE ApplyCalls(SetObjective(obj, Head(calls)), Tail(calls))

add_constraints ==
    /\ pc = "variables"
    /\ constraints' = AllConstraints(num_staff, num_days)
    /\ objective' = ApplyCalls(objective, ObjectiveCalls(num_staff, num_days))
    /\ pc' = "constrained"
    /\ UNCHANGED <<num_staff, num_days, vars, schedule, console2>>
    /\ UNCHANGED vrpvars

(***************************************************************************)
(* The meaning of the constraints on an assignment val, where val[s][d] is *)
(* the shift whose BoolVar (s, d, shift) has value 1.                      *)
(***************************************************************************)
\* solver.Value(self.vars[(s, d, shift)])
Value(val, s, d, shift) == IF val[s][d] = shift THEN 1 ELSE 0

\* the week's total_minutes of staff member s
TotalMinutes(val, s, week) ==
    SumSeq([i \in 1..WeekLen |->
        LET shift == val[s][week * WeekLen + i - 1]
        IN  IF shift # "OFF" THEN ShiftMinutes(shift) ELSE 0])

\* staff_count: the number of staff on a shift on day d
StaffCount(val, d, shift) == Cardinality({s \in DOMAIN val : val[s][d] = shift})

Abs(x) == IF x < 0 THEN -x ELSE x

Holds(c, val) ==
    CASE c.kind = "one_shift" ->
            Cardinality({shift \in ShiftSet : Value(val, c.s, c.d, shift) = 1}) = 1
      [] c.kind = "off_week" ->
            Cardinality({d \in WeekDays(c.week) : val[c.s][d] = "OFF"}) = 1
      [] c.kind = "nights" ->
            Cardinality({i \in 0..3 : val[c.s][c.d + i] \in night_shifts}) <= 3
      [] c.kind = "rest" ->
            Value(val, c.s, c.d, c.shift1) + Value(val, c.s, c.d + 1, c.shift2) <= 1
      [] c.kind = "minutes" ->
            /\ TotalMinutes(val, c.s, c.week) >= c.lo
            /\ TotalMinutes(val, c.s, c.week) <= c.hi
      [] c.kind = "cover" ->
            StaffCount(val, c.d, c.shift) >= 1
      [] c.kind = "deviation" ->
            LET deviation == StaffCount(val, c.d, c.shift) - c.desired
            IN  /\ deviation >= c.lo
                /\ deviation <= c.hi
                /\ Abs(deviation) <= c.abs_hi

\* the first and the last day whose variables constraint c reads
FirstDay(c) ==
    CASE c.kind \in {"one_shift", "cover", "deviation", "nights", "rest"} -> c.d
      [] c.kind \in {"off_week", "minutes"} -> c.week * WeekLen

LastDay(c) ==
    CASE c.kind \in {"one_shift", "cover", "deviation"} -> c.d
      [] c.kind \in {"off_week", "minutes"} -> (c.week + 1) * WeekLen - 1
      [] c.kind = "nights" -> c.d + 3
      [] c.kind = "rest" -> c.d + 1

\* whether constraint c reads a variable of staff member s
ReadsStaff(c, s) == IF c.kind \in {"cover", "deviation"} THEN TRUE ELSE c.s = s

(***************************************************************************)
(* The solver.  CP-SAT may return any assignment that satisfies every      *)
(* constraint of the model.  The assignments explored here are those in    *)
(* which staff members 1, 2, ... work a fixed weekly rota (staff member s  *)
(* starts it s days in) and staff member 0 works any row; each is checked  *)
(* against every constraint, day by day as its variables become known.     *)
(***************************************************************************)
RotaPattern == <<"A", "A", "B", "B", "C", "D", "OFF">>
Rota(s, d) == RotaPattern[((d + s) % 7) + 1]

\* the assignment in which staff member 0 works row (days 0..Len(row)-1)
Assignment(row, n) ==
    [s \in Staff(n) |-> [d \in 0..(Len(row) - 1) |-> IF s = 0 THEN row[d + 1] ELSE Rota(s, d)]]

\* the rows of staff member 0 over days 0..d-1 that violate no constraint
\* whose variables all lie in those days.  Of the constraints whose last
\* day is d-1, those that do not read staff member 0 are decided by the
\* rota alone, those that read day d-1 only are decided by the shift of
\* that day, and the others by the whole row.
RECURSIVE FeasibleRows(_, _, _)
FeasibleRows(cons, n, d) ==
    IF d = 0 THEN {<<>>}
    ELSE LET now == {c \in cons : LastDay(c) = d - 1}
             others == {c \in now : ~ReadsStaff(c, 0)}
             one_day == {c \in now \ others : FirstDay(c) = d - 1}
             many_days == (now \ others) \ one_day
             others_ok == \A c \in others : Holds(c, Assignment([i \in 1..d |-> "OFF"], n))
             day_shifts == {shift \in ShiftSet :
                              \A c \in one_day :
                                  Holds(c, Assignment([i \in 1..d |-> shift], n))}
         IN  IF ~others_ok THEN {}
             ELSE {row \in {Append(p, shift) : p \in FeasibleRows(cons, n, d - 1),
                                               shift \in day_shifts} :
                      \A c \in many_days : Holds(c, Assignment(row, n))}

Max(S) == CHOOSE x \in S : \A y \in S : y <= x

\* solve(): schedule[s][d] is the last shift, in the dict's order, whose variable is 1
ExtractSchedule(val) ==
    [s \in DOMAIN val |-> [d \in DOMAIN val[s] |->
        ShiftNames[Max({i \in 1..Len(ShiftNames) : Value(val, s, d, ShiftNames[i]) = 1})]]]

\* solve(): OPTIMAL or FEASIBLE gives the schedule; any other status (no
\* solution within max_time_in_seconds, or none at all) gives None
solve ==
    /\ pc = "constrained"
    /\ \/ \E row \in FeasibleRows(constraints, num_staff, num_days) :
            schedule' = [rows |-> ExtractSchedule(Assignment(row, num_staff))]
       \/ schedule' = None
    /\ pc' = "solved"
    /\ UNCHANGED <<num_staff, num_days, vars, constraints, objective, console2>>
    /\ UNCHANGED vrpvars

(***************************************************************************)
(* print_schedule and print_summary.                                       *)
(***************************************************************************)
DigitChar == <<"0", "1", "2", "3", "4", "5", "6", "7", "8", "9">>

\* f"{hour:02d}:{minute:02d}", as its characters
format_time(hour, minute) ==
    << DigitChar[(hour \div 10) + 1], DigitChar[(hour % 10) + 1], ":",
       DigitChar[(minute \div 10) + 1], DigitChar[(minute % 10) + 1] >>

\* the cell of the DataFrame for a shift
Cell(shift) ==
    IF shift = "OFF" THEN <<"O", "F", "F">>
    ELSE (format_time(shifts[shift][1], shifts[shift][2]) \o <<"-">>)
            \o format_time(shifts[shift][3], shifts[shift][4])

\* total_hours_worked[s], in tenths of an hour
TotalHoursWorked(sched, s) ==
    LET nd == Cardinality(DOMAIN sched[s])
    IN  SumSeq([i \in 1..nd |->
            IF sched[s][i - 1] # "OFF"
            THEN (ShiftMinutes(sched[s][i - 1]) * 10) \div 60
            ELSE 0])

SummaryLines(sched) ==
    << Line("schedule", "Summary:",
            [s \in DOMAIN sched |-> TotalHoursWorked(sched, s)]),
       Line("schedule", "Shift staff per day:",
            [d \in DOMAIN sched[0] |-> [shift \in WorkShifts |-> StaffCount(sched, d, shift)]]) >>

\* main(): a schedule was found.  print_schedule builds the table and hands
\* it to display, a name the script neither defines nor imports: where the
\* interpreter provides it (IPython) the table and the summary are printed,
\* elsewhere the call raises NameError and the run ends there
print_schedule ==
    /\ pc = "solved"
    /\ schedule # None
    /\ \/ /\ console2' = (console2 \o
                    << Line("schedule", "Feasible schedule found:", <<>>),
                       Line("schedule", "display",
                            [s \in DOMAIN schedule.rows |->
                                [d \in DOMAIN schedule.rows[s] |-> Cell(schedule.rows[s][d])]]) >>)
                    \o SummaryLines(schedule.rows)
          /\ pc' = "done"
       \/ /\ console2' = console2 \o
                    << Line("schedule", "Feasible schedule found:", <<>>),
                       Line("error", "NameError", <<"display">>) >>
          /\ pc' = "failed"
    /\ UNCHANGED <<num_staff, num_days, vars, constraints, objective, schedule>>
    /\ UNCHANGED vrpvars

\* main(): no schedule
print_no_schedule ==
    /\ pc = "solved"
    /\ schedule = None
    /\ console2' = Append(console2, Line("no_solution", "No feasible schedule found.", <<>>))
    /\ pc' = "done"
    /\ UNCHANGED <<num_staff, num_days, vars, constraints, objective, schedule>>
    /\ UNCHANGED vrpvars

InitSched ==
    /\ vpc = "idle"
    /\ data = None
    /\ routing = None
    /\ solution = None
    /\ console = <<>>
    /\ pc = "start"
    /\ num_staff = NumStaff
    /\ num_days \in 1..MaxDays
    /\ vars = {}
    /\ constraints = {}
    /\ objective = None
    /\ schedule = None
    /\ console2 = <<>>

NextSched ==
    \/ create_variables
    \/ add_constraints
    \/ solve
    \/ print_schedule
    \/ print_no_schedule

SpecSched == InitSched /\ [][NextSched]_allvars

\* a schedule one day longer than a week
InitLong ==
    /\ vpc = "idle"
    /\ data = None
    /\ routing = None
    /\ solution = None
    /\ console = <<>>
    /\ pc = "start"
    /\ num_staff = NumStaff
    /\ num_days = WeekLen + 1
    /\ vars = {}
    /\ constraints = {}
    /\ objective = None
    /\ schedule = None
    /\ console2 = <<>>

SpecLong == InitLong /\ [][NextSched]_allvars

\* every schedule returned satisfies every constraint of the model: the
\* day-by-day check of FeasibleRows leaves no constraint out
SolveSound ==
    (pc \in {"solved", "done", "failed"} /\ schedule # None)
        => \A c \in constraints : Holds(c, schedule.rows)

InitVrp ==
    /\ vpc = "start"
    /\ data = None
    /\ routing = None
    /\ solution = None
    /\ console = <<>>
    /\ pc = "idle"
    /\ num_staff = 0
    /\ num_days = 0
    /\ vars = {}
    /\ constraints = {}
    /\ objective = None
    /\ schedule = None
    /\ console2 = <<>>

NextData == create_data_model \/ print_data

SpecData == InitVrp /\ [][NextData]_allvars

NextVrp ==
    \/ create_data_model
    \/ print_data
    \/ create_routing_model
    \/ solve_vrp
    \/ print_solution
    \/ main_no_solution

SpecVrp == InitVrp /\ [][NextVrp]_allvars

(***************************************************************************)
(* Properties.                                                             *)
(***************************************************************************)
ConsoleHas(c, kind) == \E i \in 1..Len(c) : c[i].kind = kind

Printed(c, label) == SelectSeq(c, LAMBDA l : l.label = label)

\* C1: in both scripts, a run that ends after the solver returned no
\* solution has printed a no-solution message
C1_NoSolutionReported ==
    /\ (vpc = "done" /\ solution = None) => ConsoleHas(console, "no_solution")
    /\ (pc = "done" /\ schedule = None) => ConsoleHas(console2, "no_solution")

\* the rest from the end of shift1 to the start of shift2 on the next day
RestMinutes(shift1, shift2) == StartMinute(shift2) + 24 * 60 - EndMinute(shift1)

Returned == pc \in {"solved", "done", "failed"} /\ schedule # None

\* C2: in every schedule returned, two non-OFF shifts on consecutive days of
\* a staff member are at least 11 hours apart
C2_RestAtLeast11h ==
    Returned =>
        \A s \in Staff(num_staff) : \A d \in 0..(num_days - 2) :
            LET shift1 == schedule.rows[s][d]
                shift2 == schedule.rows[s][d + 1]
            IN  (shift1 # "OFF" /\ shift2 # "OFF") => RestMinutes(shift1, shift2) >= 11 * 60

\* a returned schedule in which a staff member works B and then A the next
\* day (exactly 11 hours apart) and another works D and then B
C2_Witness ==
    /\ Returned
    /\ num_days >= WeekLen
    /\ \E s \in Staff(num_staff) : \E d \in 0..(num_days - 2) :
            schedule.rows[s][d] = "B" /\ schedule.rows[s][d + 1] = "A"
    /\ \E s \in Staff(num_staff) : \E d \in 0..(num_days - 2) :
            schedule.rows[s][d] = "D" /\ schedule.rows[s][d + 1] = "B"

\* C3: in every schedule returned, every staff member works at least 45
\* hours in every full week
C3_MinimumWeeklyHours ==
    Returned =>
        \A s \in Staff(num_staff) : \A week \in Weeks(num_days) :
            TotalMinutes(schedule.rows, s, week) >= 45 * 60

\* C4: the distance matrix of the data model is symmetric
C4_MatrixSymmetric ==
    data # None =>
        \A i, j \in 1..Len(data.distance_matrix) :
            data.distance_matrix[i][j] = data.distance_matrix[j][i]

\* a data model with two locations a diagonal apart: int(sqrt(2) * 10000)
C4_Witness ==
    /\ data # None
    /\ \E i, j \in 1..Len(data.distance_matrix) :
            /\ i # j
            /\ data.locations[i][1] # data.locations[j][1]
            /\ data.locations[i][2] # data.locations[j][2]
            /\ data.distance_matrix[i][j] > Scale

\* C5: the lists of the data model have consistent lengths and the vehicle
\* start and end indices are indices of locations
C5_LengthsConsistent ==
    data # None =>
        /\ Len(data.demands) = Len(data.locations)
        /\ Len(data.distance_matrix) = Len(data.locations)
        /\ \A i \in 1..Len(data.distance_matrix) :
                Len(data.distance_matrix[i]) = Len(data.locations)
        /\ Len(data.vehicle_capacities) = data.num_vehicles
        /\ Len(data.vehicle_starts) = data.num_vehicles
        /\ Len(data.vehicle_ends) = data.num_vehicles
        /\ \A v \in 1..data.num_vehicles :
                /\ data.vehicle_starts[v] \in 0..(Len(data.locations) - 1)
                /\ data.vehicle_ends[v] \in 0..(Len(data.locations) - 1)

\* a data model with staff locations and vehicles
C5_Witness ==
    /\ data # None
    /\ data.num_vehicles = NumVehicles
    /\ Len(data.locations) = NumStaffLoc + 1 + NumVehicles

\* C6: the demand at an index is 0 for the depot and the vehicle start
\* points and 1 for the staff locations
C6_DemandMatchesLocation ==
    data # None =>
        \A i \in 0..(Len(data.locations) - 1) :
            At(data.demands, i) =
                IF i = data.depot \/ i \in SeqToSet(data.vehicle_starts) THEN 0 ELSE 1

\* C7: in every schedule returned, every staff member has a day OFF in
\* every 7 consecutive days
C7_OffInEvery7Days ==
    Returned =>
        \A s \in Staff(num_staff) : \A d \in 0..(num_days - 7) :
            \E i \in 0..6 : schedule.rows[s][d + i] = "OFF"

\* C8: after add_constraints the objective holds the terms of every
\* Maximize and Minimize call
C8_ObjectiveKeepsTerms ==
    pc \in {"constrained", "solved", "done", "failed"} =>
        \A i \in 1..Len(ObjectiveCalls(num_staff, num_days)) :
            ObjectiveCalls(num_staff, num_days)[i].terms \subseteq objective.terms

\* C9: a rest constraint is added only for a pair of shifts less than 11
\* hours apart
C9_OnlyShortRestsForbidden ==
    \A c \in constraints :
        c.kind = "rest" => RestMinutes(c.shift1, c.shift2) < 11 * 60

\* C10: the total printed for all routes is the sum of the totals printed
\* for the vehicles
C10_TotalIsSumOfRoutes ==
    (vpc = "done" /\ solution # None) =>
        LET totals == Printed(console, "Total distance:")
            all == Printed(console, "Total distance of all routes:")
        IN  /\ Len(all) = 1
            /\ all[1].value = SumSeq([i \in 1..Len(totals) |-> totals[i].value])

====
